---- MODULE Spec2Model ----
(***************************************************************************)
(* Sliding-window syndrome decoder of src/src/sliding_window_decoder.py:   *)
(* SlidingWindowDecoder.compile_decoder_for_dem (round-count inference and *)
(* geometry) and SlidingWindowCompiledDecoder.decode_shots_bit_packed      *)
(* (unpack, per-shot window loop, oracle call, XOR accumulation, pack).    *)
(* Arrays are functions over 0..n-1, as in the source.                     *)
(***************************************************************************)
EXTENDS Integers, Sequences, FiniteSets, TLC

(* ------------------------------ bounds --------------------------------- *)

\* Largest number of detection bits in one batch (num_shots * num_detectors);
\* also the largest detector count for which shots are enumerated.
MaxCells == 6

\* Largest number of shots in a batch.
MaxShots == 2

\* Largest window size and overlap a decoder is constructed with.
MaxWindow == 3

MaxOverlap == 2

\* Largest number of observables of an error model.
MaxObs == 2

\* Detector counts beyond MaxCells, used for round-count inference only
\* (the batch decoded for them is empty).
LargeDetectorCounts == {29, 63, 101, 10001, 30003, 30021}

DetectorCounts == (0..MaxCells) \cup LargeDetectorCounts

(* ------------------------- program constants --------------------------- *)

\* Upper limit of detectors per round accepted by the inference.
MaxDetectorsPerRound == 10000

\* Mutant of CandidateRounds: the list starts at 5.
CandidateRoundsFrom5 ==
    <<5, 7, 9, 11, 13, 15, 17, 19, 21, 23, 25, 50, 100, 200, 500, 1000, 10000>>

\* The candidate round counts, in the order of the search.
CandidateRounds ==
    <<3, 5, 7, 9, 11, 13, 15, 17, 19, 21, 23, 25, 50, 100, 200, 500, 1000, 10000>>

(* ------------------------------ helpers -------------------------------- *)

Bit == {0, 1}

Min(a, b) == IF a <= b THEN a ELSE b

Max(a, b) == IF a >= b THEN a ELSE b

RECURSIVE Pow2(_)
Pow2(k) == IF k = 0 THEN 1 ELSE 2 * Pow2(k - 1)

\* Mutant of Xor: the window's prediction overwrites the accumulator.
KeepLatest(a, b) == b

\* Mutant of Xor: saturating combination (bitwise or).
SaturatingOr(a, b) == IF a = 1 \/ b = 1 THEN 1 ELSE 0

\* numpy ^ on 0/1 values.
Xor(a, b) == IF a = b THEN 0 ELSE 1

\* Python's a % b for b # 0: the result has the sign of b.
PyMod(a, b) ==
    IF b > 0 THEN a % b
    ELSE IF a % (0 - b) = 0 THEN 0 ELSE (a % (0 - b)) + b

\* Python's a // b for b # 0: the floor of the quotient.
PyFloorDiv(a, b) ==
    IF b > 0 THEN a \div b ELSE 0 - ((a - PyMod(a, b)) \div (0 - b))

\* The position a slice bound i denotes in a sequence of len entries: a
\* negative bound counts from the end, and the result is clamped to 0..len.
SliceIndex(i, len) == IF i < 0 THEN Max(i + len, 0) ELSE Min(i, len)

\* Number of bytes of a bit-packed row of n bits: (n + 7) // 8.
NumBytes(n) == (n + 7) \div 8

\* f[lo] + ... + f[hi - 1], by halves.
RECURSIVE SumFrom(_, _, _)
SumFrom(f, lo, hi) ==
    IF lo >= hi THEN 0
    ELSE IF hi = lo + 1 THEN f[lo]
    ELSE SumFrom(f, lo, (lo + hi) \div 2) + SumFrom(f, (lo + hi) \div 2, hi)

SumTo(f, n) == SumFrom(f, 0, n)

\* Number of entries of array v (a function over 0..n-1).
Size(v) == Cardinality(DOMAIN v)

\* Number of set bits of array v.
Weight(v) == SumTo(v, Size(v))

(* --------------------------- the oracle -------------------------------- *)

\* pymatching's matcher is external and deterministic: a detection vector in,
\* one bit per observable out, the zero vector giving the zero prediction.
\* An error model fixes one mechanism per observable.
Mechanisms == {"parity", "any", "pair"}

NextMechanism(m) ==
    IF m = "parity" THEN "any" ELSE IF m = "any" THEN "pair" ELSE "parity"

RECURSIVE MechanismAt(_, _)
MechanismAt(m, j) == IF j = 0 THEN m ELSE NextMechanism(MechanismAt(m, j - 1))

MechanismBit(m, v) ==
    IF m = "parity" THEN Weight(v) % 2
    ELSE IF m = "any" THEN (IF Weight(v) >= 1 THEN 1 ELSE 0)
    ELSE (IF Weight(v) >= 2 THEN 1 ELSE 0)

\* matcher.decode_batch on a batch of one vector: the row of predictions.
DecodeBatch(matcher, v) ==
    [j \in DOMAIN matcher |-> MechanismBit(matcher[j], v)]

\* pymatching.Matching.from_detector_error_model(dem).
MatchingFromDem(d) ==
    [j \in 0..(d.num_observables - 1) |-> MechanismAt(d.mechanism, j)]

(* ------------------------- unpacking, packing -------------------------- *)

\* Bit k of a bit-packed row, least-significant bit first.
PackedBit(row, k) == (row[k \div 8] \div Pow2(k % 8)) % 2

\* Mutant of UnpackRow: most-significant bit first (numpy's default bit
\* order).
UnpackRowBig(row, n) ==
    [k \in 0..(Min(8 * Size(row), n) - 1) |->
        (row[k \div 8] \div Pow2(7 - (k % 8))) % 2]

\* np.unpackbits(row, bitorder='little')[:n]: at most n bits are kept.
UnpackRow(row, n) ==
    [k \in 0..(Min(8 * Size(row), n) - 1) |-> PackedBit(row, k)]

\* reshape of one unpacked row to (num_rounds, num_detectors_per_round).
ReshapeRow(bits, rounds, per_round) ==
    [r \in 0..(rounds - 1) |-> [d \in 0..(per_round - 1) |-> bits[r * per_round + d]]]

RECURSIVE ByteOf(_, _, _, _)
\* Value of byte b of the packing of bits (n of them, zero padded): bits k..7.
ByteOf(bits, n, b, k) ==
    IF k = 8 THEN 0
    ELSE (IF 8 * b + k < n THEN bits[8 * b + k] ELSE 0) * Pow2(k)
         + ByteOf(bits, n, b, k + 1)

RECURSIVE ByteOfBig(_, _, _, _)
ByteOfBig(bits, n, b, k) ==
    IF k = 8 THEN 0
    ELSE (IF 8 * b + k < n THEN bits[8 * b + k] ELSE 0) * Pow2(7 - k)
         + ByteOfBig(bits, n, b, k + 1)

\* Mutant of PackRow: most-significant bit first (numpy's default bit order).
PackRowBig(bits, n) == [b \in 0..(NumBytes(n) - 1) |-> ByteOfBig(bits, n, b, 0)]

\* Mutant of PackRow: the row is padded with ones up to a whole byte.
PackRowOnesPadded(bits, n) ==
    [b \in 0..(NumBytes(n) - 1) |->
        ByteOf([k \in 0..(8 * NumBytes(n) - 1) |-> IF k < n THEN bits[k] ELSE 1],
               8 * NumBytes(n), b, 0)]

\* np.packbits(np.pad(row, ...), bitorder='little')[:num_obs_bytes].
PackRow(bits, n) == [b \in 0..(NumBytes(n) - 1) |-> ByteOf(bits, n, b, 0)]

(* ----------------------- round-count inference ------------------------- *)

\* Mutant of Accepts: no lower limit on the detectors per round.
AcceptsNoLowerLimit(nd, r) ==
    /\ nd % r = 0
    /\ nd \div r <= MaxDetectorsPerRound

\* The divisibility-and-bound test of one tested round count r.
Accepts(nd, r) ==
    /\ nd % r = 0
    /\ 1 <= nd \div r
    /\ nd \div r <= MaxDetectorsPerRound

RECURSIVE InferFromNoPlusOne(_, _)
\* Mutant of InferFrom: candidate + 1 is never tested.
InferFromNoPlusOne(nd, i) ==
    IF i > Len(CandidateRounds) THEN <<>>
    ELSE IF Accepts(nd, CandidateRounds[i]) THEN <<CandidateRounds[i]>>
    ELSE InferFromNoPlusOne(nd, i + 1)

RECURSIVE InferFrom(_, _)
\* The search loop from candidate i on: <<r>> for the first accepted round
\* count, <<>> when the list is exhausted (num_rounds stays None).
InferFrom(nd, i) ==
    IF i > Len(CandidateRounds) THEN <<>>
    ELSE IF Accepts(nd, CandidateRounds[i]) THEN <<CandidateRounds[i]>>
    ELSE IF Accepts(nd, CandidateRounds[i] + 1) THEN <<CandidateRounds[i] + 1>>
    ELSE InferFrom(nd, i + 1)

InferNumRounds(nd) == InferFrom(nd, 1)

\* Mutant of ResolveNumRounds: the round count is always inferred.
ResolveByInference(explicit, nd) == InferNumRounds(nd)

\* num_rounds after lines 338-356: the explicit value, else the inferred one.
ResolveNumRounds(explicit, nd) ==
    IF explicit # <<>> THEN explicit ELSE InferNumRounds(nd)

(* --------------------------- window geometry --------------------------- *)

\* Mutant of RecordingEnd: the end of the recording window is not clamped to
\* the number of rounds.
RecordingEndNoClamp(start, window, rounds) == start + window

RecordingEnd(start, window, rounds) == Min(start + window, rounds)

\* Mutant of DecodeStart: the overlap is added to the start of the recording
\* window instead of subtracted from it.
DecodeStartLate(start, overlap) == Max(0, start + overlap)

\* Mutant of DecodeStart: the decoding window gets no rounds before the
\* recording window.
DecodeStartAtRecord(start, overlap) == start

DecodeStart(start, overlap) == Max(0, start - overlap)

\* Mutant of DecodeEnd: only half of the overlap is added after the recording
\* window.
DecodeEndHalfOverlap(end, overlap, rounds) == Min(end + (overlap \div 2), rounds)

\* Mutant of DecodeEnd: the decoding window gets no rounds after the recording
\* window.
DecodeEndNoOverlap(end, overlap, rounds) == Min(end, rounds)

DecodeEnd(end, overlap, rounds) == Min(end + overlap, rounds)

\* Mutant of NextRecordingStart: the recording window slides by one round.
NextRecordingStartByOne(start, window) == start + 1

NextRecordingStart(start, window) == start + window

\* current_shot_syndrome[from:to, :].flatten(): the rounds from..to-1, row
\* after row.
FlattenRounds(syndrome, from, to, per_round) ==
    [i \in 0..((to - from) * per_round - 1) |->
        syndrome[from + i \div per_round][i % per_round]]

\* Mutant of PlaceAt: the window's data is written at the start of the vector
\* instead of at its own detector indices.
PlaceAtStart(flat, from_idx, to_idx, nd) ==
    [k \in 0..(nd - 1) |-> IF k < to_idx - from_idx THEN flat[k] ELSE 0]

\* decode_syndrome_vector: nd zeros, then flat placed at from_idx..to_idx-1.
PlaceAt(flat, from_idx, to_idx, nd) ==
    [k \in 0..(nd - 1) |->
        IF from_idx <= k /\ k < to_idx THEN flat[k - from_idx] ELSE 0]

\* The full-length vector given to the oracle for the decode window [from, to).
SyndromeVector(syndrome, from, to, per_round, nd) ==
    PlaceAt(FlattenRounds(syndrome, SliceIndex(from, Size(syndrome)),
                          SliceIndex(to, Size(syndrome)), per_round),
            SliceIndex(from * per_round, nd), SliceIndex(to * per_round, nd), nd)

\* Mutant of XorArrays: entries are added without the reduction modulo 2 of
\* a one-bit value, saturating at 1.
XorArraysSaturating(acc, pred) ==
    [j \in DOMAIN acc |-> IF acc[j] + pred[j] >= 1 THEN 1 ELSE 0]

\* accumulated_predictions ^ predicted_observables[0], reduced mod 2.
XorArrays(acc, pred) == [j \in DOMAIN acc |-> Xor(acc[j], pred[j]) % 2]

(* ------------------------------- state --------------------------------- *)

VARIABLES
    decoder,        \* SlidingWindowDecoder: n_sliding_window, n_overlap, num_rounds
    dem,            \* the error model: num_detectors, num_observables, mechanism
    bit_packed_detection_event_data,  \* the batch: one bit-packed row per shot
    pc,             \* position of the caller / decode_shots_bit_packed
    compiled,       \* <<>> or <<the SlidingWindowCompiledDecoder>>
    error,          \* <<>> or <<the exception raised>>
    dets_reshaped,  \* per shot, per round, per detector
    predictions,    \* per shot, per observable
    shot_idx,
    recording_start_round,
    accumulated_parity,
    accumulated_predictions,
    window_num,     \* windows decoded so far for the current shot
    oracle_calls,   \* history of matcher.decode_batch calls of this decode
    predictions_packed,  \* <<>> or <<the returned array>>
    via_files,      \* <<>> or <<the arguments of decode_via_files>>
    threads,        \* <<>> or, per concurrent decode call, its local variables
    experiment,     \* <<>> or <<the state of a threshold-experiment run>>
    obs_predictions_b8_out   \* <<>> or <<the bytes written to the output file>>

vars ==
    <<decoder, dem, bit_packed_detection_event_data, pc, compiled, error,
      dets_reshaped, predictions, shot_idx, recording_start_round,
      accumulated_parity, accumulated_predictions, window_num, oracle_calls,
      predictions_packed, via_files, threads, experiment,
      obs_predictions_b8_out>>

\* Largest explicit num_rounds a decoder is constructed with.
MaxRounds == 7

\* num_rounds: None (<<>>) or an explicit round count.
NumRoundsArgs == {<<>>} \cup {<<r>> : r \in 1..MaxRounds}

\* A bit-packed input row of nd detector bits, padding bits all equal to pad.
RECURSIVE InputByte(_, _, _, _, _)
InputByte(bits, nd, pad, b, k) ==
    IF k = 8 THEN 0
    ELSE (IF 8 * b + k < nd THEN bits[8 * b + k] ELSE pad) * Pow2(k)
         + InputByte(bits, nd, pad, b, k + 1)

InputRow(bits, nd, pad) ==
    [b \in 0..(NumBytes(nd) - 1) |-> InputByte(bits, nd, pad, b, 0)]

\* Shot counts enumerated for nd detectors.
ShotCounts(nd) == {n \in 0..MaxShots : n * nd <= MaxCells}

\* The batches of correctly shaped rows enumerated for nd detectors: every
\* choice of the detection bits; the padding bits of a row are all set in the
\* even shots and all clear in the odd ones.
Batches(nd) ==
    UNION { { [s \in 0..(n - 1) |->
                 InputRow([k \in 0..(nd - 1) |-> cells[s * nd + k]], nd, (s + 1) % 2)]
              : cells \in [0..(n * nd - 1) -> Bit] }
            : n \in ShotCounts(nd) }

\* The error models enumerated: a one-observable model has any mechanism; the
\* observables of a larger model take the mechanisms in turn from "any" on.
ModelMechanisms(nobs) == IF nobs = 1 THEN Mechanisms ELSE {"any"}

\* Nothing has been compiled, decoded or written yet.
NothingRun ==
    /\ pc = "constructed"
    /\ compiled = <<>>
    /\ error = <<>>
    /\ dets_reshaped = <<>>
    /\ predictions = <<>>
    /\ shot_idx = 0
    /\ recording_start_round = 0
    /\ accumulated_parity = 0
    /\ accumulated_predictions = <<>>
    /\ window_num = 0
    /\ oracle_calls = <<>>
    /\ predictions_packed = <<>>
    /\ obs_predictions_b8_out = <<>>

\* The decoder as constructed, an error model and a batch for it. Window
\* sizes from 1 and overlaps from 0 are enumerated (overlaps may exceed the
\* window size), explicit round counts from 1.
Init ==
    /\ \E w \in 1..MaxWindow, o \in 0..MaxOverlap, r \in NumRoundsArgs :
         decoder = [n_sliding_window |-> w, n_overlap |-> o, num_rounds |-> r]
    /\ \E nd \in DetectorCounts, nobs \in 1..MaxObs :
       \E m \in ModelMechanisms(nobs) :
         /\ dem = [num_detectors |-> nd, num_observables |-> nobs, mechanism |-> m]
         /\ bit_packed_detection_event_data \in Batches(nd)
    /\ via_files = <<>>
    /\ threads = <<>>
    /\ experiment = <<>>
    /\ NothingRun

(* ------------------------------ compile -------------------------------- *)

InferenceError(nd) ==
    [type |-> "ValueError", message |-> "Could not infer number of rounds",
     num_detectors |-> nd, num_rounds |-> <<>>]

DivisibilityError(nd, rounds) ==
    [type |-> "ValueError", message |-> "not divisible by number of rounds",
     num_detectors |-> nd, num_rounds |-> <<rounds>>]

\* dem.num_detectors % num_rounds with num_rounds = 0.
ZeroDivisionError(nd) ==
    [type |-> "ZeroDivisionError", message |-> "integer modulo by zero",
     num_detectors |-> nd, num_rounds |-> <<0>>]

\* SlidingWindowCompiledDecoder.__init__.
CompiledDecoder(matcher, rounds, per_round, window, overlap, nobs) ==
    [matcher |-> matcher, num_rounds |-> rounds,
     num_detectors_per_round |-> per_round, n_sliding_window |-> window,
     n_overlap |-> overlap, num_observables |-> nobs,
     num_detectors |-> rounds * per_round]

\* Mutant of CompileOutcome: no divisibility check before the division.
CompileOutcomeUnchecked(dec, d) ==
    LET nd == d.num_detectors
        resolved == ResolveNumRounds(dec.num_rounds, nd)
    IN  IF resolved = <<>>
        THEN [raised |-> <<InferenceError(nd)>>, returned |-> <<>>]
        ELSE IF resolved[1] = 0
        THEN [raised |-> <<ZeroDivisionError(nd)>>, returned |-> <<>>]
        ELSE [raised |-> <<>>,
              returned |-> <<CompiledDecoder(MatchingFromDem(d), resolved[1],
                                             PyFloorDiv(nd, resolved[1]),
                                             dec.n_sliding_window, dec.n_overlap,
                                             d.num_observables)>>]

\* What compile_decoder_for_dem ends with: the exception or the decoder.
CompileOutcome(dec, d) ==
    LET nd == d.num_detectors
        resolved == ResolveNumRounds(dec.num_rounds, nd)
    IN  IF resolved = <<>>
        THEN [raised |-> <<InferenceError(nd)>>, returned |-> <<>>]
        ELSE IF resolved[1] = 0
        THEN [raised |-> <<ZeroDivisionError(nd)>>, returned |-> <<>>]
        ELSE IF PyMod(nd, resolved[1]) # 0
        THEN [raised |-> <<DivisibilityError(nd, resolved[1])>>, returned |-> <<>>]
        ELSE [raised |-> <<>>,
              returned |-> <<CompiledDecoder(MatchingFromDem(d), resolved[1],
                                             PyFloorDiv(nd, resolved[1]),
                                             dec.n_sliding_window, dec.n_overlap,
                                             d.num_observables)>>]

\* SlidingWindowDecoder.compile_decoder_for_dem(dem).
CompileDecoderForDem ==
    /\ pc = "constructed"
    /\ via_files = <<>>
    /\ LET out == CompileOutcome(decoder, dem)
       IN  /\ error' = out.raised
           /\ compiled' = out.returned
           /\ pc' = IF out.raised # <<>> THEN "failed" ELSE "compiled"
    /\ UNCHANGED <<decoder, dem, threads, experiment, via_files, obs_predictions_b8_out,
                   bit_packed_detection_event_data, dets_reshaped,
                   predictions, shot_idx, recording_start_round,
                   accumulated_parity, accumulated_predictions, window_num,
                   oracle_calls, predictions_packed>>

(* ------------------------------- decode -------------------------------- *)

\* The compiled decoder a decode call runs on.
Self == compiled[1]

NumShots == Size(bit_packed_detection_event_data)

Zeros(n) == [j \in 0..(n - 1) |-> 0]

\* The exception of dets_unpacked.reshape(num_shots, num_rounds,
\* num_detectors_per_round).
ReshapeError(shots, bits, rounds, per_round) ==
    [type |-> "ValueError", message |-> "cannot reshape array",
     size |-> shots * bits, shape |-> <<shots, rounds, per_round>>]

\* reshape raises when two dimensions are negative, and when the unpacked
\* array does not have num_shots * num_rounds * num_detectors_per_round
\* entries.
ReshapeFails(shots, bits, rounds, per_round) ==
    \/ rounds < 0 /\ per_round < 0
    \/ shots * bits # shots * rounds * per_round

\* Lines 92-107: unpack, reshape, allocate the predictions.
DecodeBegin ==
    /\ pc = "compiled"
    /\ LET bits == IF NumShots = 0 THEN 0
                   ELSE Size(UnpackRow(bit_packed_detection_event_data[0],
                                       Self.num_detectors))
       IN  IF ReshapeFails(NumShots, bits, Self.num_rounds,
                           Self.num_detectors_per_round)
           THEN /\ error' = <<ReshapeError(NumShots, bits, Self.num_rounds,
                                           Self.num_detectors_per_round)>>
                /\ pc' = "failed"
                /\ UNCHANGED <<dets_reshaped, predictions, shot_idx>>
           ELSE /\ dets_reshaped' =
                     [s \in 0..(NumShots - 1) |->
                        ReshapeRow(UnpackRow(bit_packed_detection_event_data[s],
                                             Self.num_detectors),
                                   Self.num_rounds, Self.num_detectors_per_round)]
                /\ predictions' =
                     [s \in 0..(NumShots - 1) |-> Zeros(Self.num_observables)]
                /\ shot_idx' = 0
                /\ pc' = "shots"
                /\ UNCHANGED error
    /\ UNCHANGED <<decoder, dem, threads, experiment, via_files, obs_predictions_b8_out,
                   bit_packed_detection_event_data, compiled,
                   recording_start_round, accumulated_parity,
                   accumulated_predictions, window_num, oracle_calls,
                   predictions_packed>>

\* Mutant of ShotBegin: the accumulator is initialised once, before the loop
\* over the shots, and carried from one shot to the next.
ShotBeginHoisted ==
    /\ pc = "shots"
    /\ shot_idx < NumShots
    /\ IF shot_idx > 0
       THEN UNCHANGED <<accumulated_parity, accumulated_predictions>>
       ELSE IF Self.num_observables = 1
       THEN /\ accumulated_parity' = 0
            /\ UNCHANGED accumulated_predictions
       ELSE /\ accumulated_predictions' = Zeros(Self.num_observables)
            /\ UNCHANGED accumulated_parity
    /\ recording_start_round' = 0
    /\ window_num' = 0
    /\ pc' = IF 0 < Self.num_rounds THEN "windows" ELSE "store"
    /\ UNCHANGED <<decoder, dem, threads, experiment, via_files, obs_predictions_b8_out,
                   bit_packed_detection_event_data, compiled, error,
                   dets_reshaped, predictions, shot_idx, oracle_calls,
                   predictions_packed>>

\* Mutant of ShotBegin: the window counters are initialised once, before the
\* loop over the shots.
ShotBeginCountersHoisted ==
    /\ pc = "shots"
    /\ shot_idx < NumShots
    /\ IF Self.num_observables = 1
       THEN /\ accumulated_parity' = 0
            /\ UNCHANGED accumulated_predictions
       ELSE /\ accumulated_predictions' = Zeros(Self.num_observables)
            /\ UNCHANGED accumulated_parity
    /\ recording_start_round' = IF shot_idx = 0 THEN 0 ELSE recording_start_round
    /\ window_num' = IF shot_idx = 0 THEN 0 ELSE window_num
    /\ pc' = IF recording_start_round' < Self.num_rounds THEN "windows" ELSE "store"
    /\ UNCHANGED <<decoder, dem, threads, experiment, via_files,
                   obs_predictions_b8_out, bit_packed_detection_event_data,
                   compiled, error, dets_reshaped, predictions, shot_idx,
                   oracle_calls, predictions_packed>>

\* Lines 110-176: the next shot; its accumulator and first recording window.
ShotBegin ==
    /\ pc = "shots"
    /\ shot_idx < NumShots
    /\ IF Self.num_observables = 1
       THEN /\ accumulated_parity' = 0
            /\ UNCHANGED accumulated_predictions
       ELSE /\ accumulated_predictions' = Zeros(Self.num_observables)
            /\ UNCHANGED accumulated_parity
    /\ recording_start_round' = 0
    /\ window_num' = 0
    /\ pc' = IF 0 < Self.num_rounds THEN "windows" ELSE "store"
    /\ UNCHANGED <<decoder, dem, threads, experiment, via_files, obs_predictions_b8_out,
                   bit_packed_detection_event_data, compiled, error,
                   dets_reshaped, predictions, shot_idx, oracle_calls,
                   predictions_packed>>

\* Largest number of windows followed for one shot: the loop of a decoder
\* whose window size is not positive never ends.
MaxWindowNum == 12

\* Lines 176-244: one iteration of the window loop.
WindowStep ==
    /\ pc = "windows"
    /\ window_num < MaxWindowNum
    /\ LET recording_end_round ==
               RecordingEnd(recording_start_round, Self.n_sliding_window,
                            Self.num_rounds)
           decode_start_round == DecodeStart(recording_start_round, Self.n_overlap)
           decode_end_round ==
               DecodeEnd(recording_end_round, Self.n_overlap, Self.num_rounds)
           decode_syndrome_vector ==
               SyndromeVector(dets_reshaped[shot_idx], decode_start_round,
                              decode_end_round, Self.num_detectors_per_round,
                              Self.num_detectors)
           predicted_observables == DecodeBatch(Self.matcher, decode_syndrome_vector)
           next_start == NextRecordingStart(recording_start_round,
                                            Self.n_sliding_window)
       IN  /\ oracle_calls' =
                Append(oracle_calls,
                       [shot_idx |-> shot_idx,
                        recording_start_round |-> recording_start_round,
                        recording_end_round |-> recording_end_round,
                        decode_start_round |-> decode_start_round,
                        decode_end_round |-> decode_end_round,
                        decode_syndrome_vector |-> decode_syndrome_vector,
                        predicted_observables |-> predicted_observables])
           /\ IF Self.num_observables = 1
              THEN /\ accumulated_parity' =
                        Xor(accumulated_parity, predicted_observables[0])
                   /\ UNCHANGED accumulated_predictions
              ELSE /\ accumulated_predictions' =
                        XorArrays(accumulated_predictions, predicted_observables)
                   /\ UNCHANGED accumulated_parity
           /\ recording_start_round' = next_start
           /\ window_num' = window_num + 1
           /\ pc' = IF recording_end_round >= Self.num_rounds
                       \/ ~(next_start < Self.num_rounds)
                    THEN "store" ELSE "windows"
    /\ UNCHANGED <<decoder, dem, threads, experiment, via_files, obs_predictions_b8_out,
                   bit_packed_detection_event_data, compiled, error,
                   dets_reshaped, predictions, shot_idx, predictions_packed>>

\* Lines 254-258: the accumulator becomes the shot's prediction row.
StoreShot ==
    /\ pc = "store"
    /\ predictions' =
         [predictions EXCEPT ![shot_idx] =
            IF Self.num_observables = 1
            THEN [predictions[shot_idx] EXCEPT ![0] = accumulated_parity]
            ELSE accumulated_predictions]
    /\ shot_idx' = shot_idx + 1
    /\ pc' = "shots"
    /\ UNCHANGED <<decoder, dem, threads, experiment, via_files, obs_predictions_b8_out,
                   bit_packed_detection_event_data, compiled, error,
                   dets_reshaped, recording_start_round, accumulated_parity,
                   accumulated_predictions, window_num, oracle_calls,
                   predictions_packed>>

\* Lines 260-268: pack the predictions and return them.
ReturnPacked ==
    /\ pc = "shots"
    /\ shot_idx >= NumShots
    /\ predictions_packed' =
         <<[s \in 0..(NumShots - 1) |-> PackRow(predictions[s], Self.num_observables)]>>
    /\ pc' = "returned"
    /\ UNCHANGED <<decoder, dem, threads, experiment, via_files, obs_predictions_b8_out,
                   bit_packed_detection_event_data, compiled, error,
                   dets_reshaped, predictions, shot_idx, recording_start_round,
                   accumulated_parity, accumulated_predictions, window_num,
                   oracle_calls>>

\* The window loop of one shot as a function: the accumulator after the loop
\* entered at recording window start with accumulator acc (an array; entry 0
\* is accumulated_parity when there is one observable).
RECURSIVE FoldWindows(_, _, _, _)
FoldWindows(self, syndrome, start, acc) ==
    LET recording_end_round ==
            RecordingEnd(start, self.n_sliding_window, self.num_rounds)
        decode_start_round == DecodeStart(start, self.n_overlap)
        decode_end_round ==
            DecodeEnd(recording_end_round, self.n_overlap, self.num_rounds)
        predicted_observables ==
            DecodeBatch(self.matcher,
                        SyndromeVector(syndrome, decode_start_round, decode_end_round,
                                       self.num_detectors_per_round,
                                       self.num_detectors))
        next_acc ==
            IF self.num_observables = 1
            THEN [j \in {0} |-> Xor(acc[0], predicted_observables[0])]
            ELSE XorArrays(acc, predicted_observables)
        next_start == NextRecordingStart(start, self.n_sliding_window)
    IN  IF recording_end_round >= self.num_rounds \/ ~(next_start < self.num_rounds)
        THEN next_acc
        ELSE FoldWindows(self, syndrome, next_start, next_acc)

\* decode_shots_bit_packed on the one-shot batch holding row: the packed
\* prediction row it returns.
DecodeShotAlone(self, row) ==
    LET syndrome ==
            ReshapeRow(UnpackRow(row, self.num_detectors), self.num_rounds,
                       self.num_detectors_per_round)
    IN  PackRow(IF 0 < self.num_rounds
                THEN FoldWindows(self, syndrome, 0, Zeros(self.num_observables))
                ELSE Zeros(self.num_observables),
                self.num_observables)

Next ==
    \/ CompileDecoderForDem
    \/ DecodeBegin
    \/ ShotBegin
    \/ WindowStep
    \/ StoreShot
    \/ ReturnPacked

Spec == Init /\ [][Next]_vars

\* Largest number of rounds, hence of windows of a shot, of the decodes whose
\* window predictions are folded in every order.
MaxOrderRounds == 5

\* The initial states with at most MaxOrderRounds rounds.
InitOrder ==
    /\ Init
    /\ dem.num_detectors <= MaxOrderRounds
    /\ decoder.num_rounds # <<>> => decoder.num_rounds[1] <= MaxOrderRounds

SpecOrder == InitOrder /\ [][Next]_vars

(* ------------- any configuration, any row length ---------------------- *)

\* Window sizes, overlaps and explicit round counts are enumerated down to
\* -MaxNegative: the constructor takes any integers.
MaxNegative == 1

MaxConfigWindow == 2

MaxConfigOverlap == 2

MaxConfigRounds == 3

\* Most detectors, and most detection bits of a batch, of the error models
\* decoded under any configuration.
MaxConfigCells == 3

MaxConfigShots == 2

\* The byte set in every position a row has beyond its expected length.
ExtraByte == Pow2(8) - 1

\* row cut or extended to len bytes.
RowOfLength(row, len) ==
    [b \in 0..(len - 1) |-> IF b < Size(row) THEN row[b] ELSE ExtraByte]

\* The batches enumerated for nd detectors: rows of the expected number of
\* bytes, one byte less (when that is possible) and one byte more.
ConfigBatches(nd) ==
    UNION { { [s \in 0..(n - 1) |->
                 RowOfLength(InputRow([k \in 0..(nd - 1) |-> cells[s * nd + k]],
                                      nd, (s + 1) % 2), len)]
              : cells \in [0..(n * nd - 1) -> Bit] }
            : n \in {m \in 0..MaxConfigShots : m * nd <= MaxConfigCells},
              len \in (NumBytes(nd) - 1)..(NumBytes(nd) + 1) }

InitConfig ==
    /\ \E w \in (0 - MaxNegative)..MaxConfigWindow,
          o \in (0 - MaxNegative)..MaxConfigOverlap,
          r \in {<<>>} \cup {<<t>> : t \in (0 - MaxNegative)..MaxConfigRounds} :
         decoder = [n_sliding_window |-> w, n_overlap |-> o, num_rounds |-> r]
    /\ \E nd \in 1..MaxConfigCells, nobs \in 1..MaxObs :
         /\ dem = [num_detectors |-> nd, num_observables |-> nobs,
                   mechanism |-> "any"]
         /\ bit_packed_detection_event_data \in ConfigBatches(nd)
    /\ via_files = <<>>
    /\ threads = <<>>
    /\ experiment = <<>>
    /\ NothingRun

SpecConfig == InitConfig /\ [][Next]_vars

\* The same calls, run to the end: a call that can take a step eventually
\* takes one (the interpreter never stops in the middle of a call).
SpecConfigFair == InitConfig /\ [][Next]_vars /\ WF_vars(Next)

(* ------------------ overlaps as long as the timeline ------------------- *)

\* Largest number of detectors, and of detection bits in a batch, of the
\* decodes with long overlaps.
MaxWholeCells == 5

\* Largest overlap of those decodes; the smallest is MaxOverlap + 1.
MaxWholeOverlap == 5

\* The batches of correctly shaped rows of at most MaxWholeCells detection
\* bits for nd detectors.
WholeBatches(nd) ==
    UNION { { [s \in 0..(n - 1) |->
                 InputRow([k \in 0..(nd - 1) |-> cells[s * nd + k]], nd, (s + 1) % 2)]
              : cells \in [0..(n * nd - 1) -> Bit] }
            : n \in {m \in 0..MaxShots : m * nd <= MaxWholeCells} }

\* A decoder constructed with an overlap above MaxOverlap, an error model of
\* at most MaxWholeCells detectors and a batch for it.
InitWhole ==
    /\ \E w \in 1..MaxWindow, o \in (MaxOverlap + 1)..MaxWholeOverlap,
          r \in {<<>>} \cup {<<t>> : t \in 1..MaxWholeCells} :
         decoder = [n_sliding_window |-> w, n_overlap |-> o, num_rounds |-> r]
    /\ \E nd \in 1..MaxWholeCells, nobs \in 1..MaxObs :
       \E m \in ModelMechanisms(nobs) :
         /\ dem = [num_detectors |-> nd, num_observables |-> nobs, mechanism |-> m]
         /\ bit_packed_detection_event_data \in WholeBatches(nd)
    /\ via_files = <<>>
    /\ threads = <<>>
    /\ experiment = <<>>
    /\ NothingRun

SpecWhole == InitWhole /\ [][Next]_vars

(* ----------------------- rows of more than a byte ---------------------- *)

\* Detectors of the error models whose rows take more than one byte.
WideDetectors == 9

\* Observables of the error models whose prediction rows take more than one
\* byte.
WideObs == 9

MaxWireWindow == 2

\* Most set detection bits of a shot with WideDetectors detectors.
MaxWireWeight == 2

\* The detection vectors enumerated for a wide shot.
WireVectors(nd) == {v \in [0..(nd - 1) -> Bit] : Weight(v) <= MaxWireWeight}

\* The batches of wide rows enumerated: one shot, or that shot followed by the
\* shot with the detectors in reverse order.
WireBatches(nd) ==
    UNION { { [s \in 0..(n - 1) |->
                 InputRow([k \in 0..(nd - 1) |->
                              IF s = 0 THEN v[k] ELSE v[nd - 1 - k]],
                          nd, (s + 1) % 2)]
              : v \in WireVectors(nd) }
            : n \in 1..2 }

InitWire ==
    /\ \E w \in 1..MaxWireWindow, o \in 0..(MaxWireWindow - 1),
          r \in {<<>>, <<1>>, <<3>>, <<WideDetectors>>} :
         /\ o < w
         /\ decoder = [n_sliding_window |-> w, n_overlap |-> o, num_rounds |-> r]
    /\ \E nobs \in {1, 2, WideObs} :
         /\ dem = [num_detectors |-> WideDetectors, num_observables |-> nobs,
                   mechanism |-> "any"]
         /\ bit_packed_detection_event_data \in WireBatches(WideDetectors)
    /\ via_files = <<>>
    /\ threads = <<>>
    /\ experiment = <<>>
    /\ NothingRun

SpecWire == InitWire /\ [][Next]_vars

(* --------------------------- decode_via_files -------------------------- *)

\* The arguments of the call: num_shots, num_dets, num_obs and the contents
\* of the file at dets_b8_in_path; dem is the model of the file at dem_path.
Args == via_files[1]

\* The bytes of a b8 file holding the rows s, s + 1, ... of a bit-packed array.
RECURSIVE B8Bytes(_, _)
B8Bytes(rows, s) ==
    IF s >= Size(rows) THEN <<>>
    ELSE [i \in 1..Size(rows[s]) |-> rows[s][i - 1]] \o B8Bytes(rows, s + 1)

\* Mutant of ReadShotDataFile: every record is taken to be one byte long.
ReadShotDataFileByByte(bytes, n) ==
    [s \in 0..(Len(bytes) - 1) |-> [b \in {0} |-> bytes[s + 1]]]

\* stim.read_shot_data_file(format='b8', bit_pack=True, num_detectors=n,
\* num_observables=0): one row of ceil(n / 8) bytes per record of the file.
ReadShotDataFile(bytes, n) ==
    [s \in 0..((Len(bytes) \div NumBytes(n)) - 1) |->
        [b \in 0..(NumBytes(n) - 1) |-> bytes[s * NumBytes(n) + b + 1]]]

\* stim.write_shot_data_file(format='b8', num_detectors=0, num_observables=n):
\* the first n bits of every row, one record per row.
WriteShotDataFile(data, n) ==
    B8Bytes([s \in DOMAIN data |-> PackRow(UnpackRow(data[s], n), n)], 0)

\* write_shot_data_file rejects bit-packed data whose rows do not have
\* ceil(n / 8) bytes.
WriteError(row_bytes, n) ==
    [type |-> "ValueError", message |-> "data shape does not match the bit count",
     row_bytes |-> row_bytes, num_observables |-> n]

\* Lines 406-419: read the model, compile, read the detection events.
DecodeViaFilesOpen ==
    /\ pc = "constructed"
    /\ via_files # <<>>
    /\ LET out == CompileOutcome(decoder, dem)
       IN  /\ error' = out.raised
           /\ compiled' = out.returned
           /\ IF out.raised # <<>>
              THEN /\ pc' = "failed"
                   /\ UNCHANGED bit_packed_detection_event_data
              ELSE /\ pc' = "compiled"
                   /\ bit_packed_detection_event_data' =
                        ReadShotDataFile(Args.dets_b8_in, Args.num_dets)
    /\ UNCHANGED <<decoder, dem, threads, experiment, via_files, obs_predictions_b8_out, dets_reshaped,
                   predictions, shot_idx, recording_start_round,
                   accumulated_parity, accumulated_predictions, window_num,
                   oracle_calls, predictions_packed>>

\* Lines 426-433: write the predictions.
DecodeViaFilesWrite ==
    /\ pc = "returned"
    /\ via_files # <<>>
    /\ IF NumBytes(Self.num_observables) # NumBytes(Args.num_obs)
       THEN /\ error' = <<WriteError(NumBytes(Self.num_observables), Args.num_obs)>>
            /\ pc' = "failed"
            /\ UNCHANGED obs_predictions_b8_out
       ELSE /\ obs_predictions_b8_out' =
                 <<WriteShotDataFile(predictions_packed[1], Args.num_obs)>>
            /\ pc' = "written"
            /\ UNCHANGED error
    /\ UNCHANGED <<decoder, dem, threads, experiment, via_files, bit_packed_detection_event_data,
                   compiled, dets_reshaped, predictions, shot_idx,
                   recording_start_round, accumulated_parity,
                   accumulated_predictions, window_num, oracle_calls,
                   predictions_packed>>

\* compile_decoder_for_dem(d) followed by decode_shots_bit_packed(rows), in
\* memory: whether an exception is raised, else the array returned.
CompileThenDecode(dec, d, rows) ==
    LET out == CompileOutcome(dec, d)
        self == out.returned[1]
        bits == IF Size(rows) = 0 THEN 0
                ELSE Size(UnpackRow(rows[0], self.num_detectors))
    IN  IF out.raised # <<>>
        THEN [failed |-> TRUE, returned |-> <<>>]
        ELSE IF ReshapeFails(Size(rows), bits, self.num_rounds,
                             self.num_detectors_per_round)
        THEN [failed |-> TRUE, returned |-> <<>>]
        ELSE [failed |-> FALSE,
              returned |-> <<[s \in DOMAIN rows |-> DecodeShotAlone(self, rows[s])]>>]

NextFiles ==
    \/ DecodeViaFilesOpen
    \/ DecodeBegin
    \/ ShotBegin
    \/ WindowStep
    \/ StoreShot
    \/ ReturnPacked
    \/ DecodeViaFilesWrite

\* Most detectors of the error model of a file-based call.
MaxFileDets == 2

\* Largest num_shots argument, and most records of the detection-event file.
MaxFileShots == 2

\* The detection vectors of the records of a file: at most one bit set.
FileVectors(n) == {v \in [0..(n - 1) -> Bit] : Weight(v) <= 1}

\* The detection-event files enumerated for records of n bits: no record, one
\* record, or that record followed by the record with its bits in reverse
\* order, and so on; padding bits are clear.
DetsFiles(n) ==
    UNION { { B8Bytes([s \in 0..(m - 1) |->
                         InputRow([k \in 0..(n - 1) |->
                                      IF s % 2 = 0 THEN v[k] ELSE v[n - 1 - k]],
                                  n, 0)], 0)
              : v \in FileVectors(n) }
            : m \in 0..MaxFileShots }

\* A decoder with a valid geometry, and a call of decode_via_files whose
\* counts may or may not be those of the model and of the file.
InitFiles ==
    /\ \E w \in 1..MaxWireWindow, r \in {<<>>, <<1>>} :
         decoder = [n_sliding_window |-> w, n_overlap |-> w - 1, num_rounds |-> r]
    /\ \E nd \in (1..MaxFileDets) \cup {WideDetectors}, nobs \in 1..MaxObs :
         /\ dem = [num_detectors |-> nd, num_observables |-> nobs,
                   mechanism |-> "any"]
         /\ \E shots \in 0..MaxFileShots, dets \in {1, nd, WideDetectors},
               obs \in (1..MaxObs) \cup {WideObs} :
              \E bytes \in DetsFiles(dets) :
                via_files = <<[num_shots |-> shots, num_dets |-> dets,
                               num_obs |-> obs, dets_b8_in |-> bytes]>>
    /\ bit_packed_detection_event_data = <<>>
    /\ threads = <<>>
    /\ experiment = <<>>
    /\ NothingRun

SpecFiles == InitFiles /\ [][NextFiles]_vars

(* ------------- concurrent decode calls on one compiled decoder --------- *)

\* Everything but the local variables of the concurrent decode calls.
SingleCallVars ==
    <<decoder, dem, bit_packed_detection_event_data, pc, compiled, error,
      dets_reshaped, predictions, shot_idx, recording_start_round,
      accumulated_parity, accumulated_predictions, window_num, oracle_calls,
      predictions_packed, via_files, experiment, obs_predictions_b8_out>>

\* The local variables of a decode_shots_bit_packed call about to start on
\* the batch data.
CallLocals(data) ==
    [pc |-> "compiled", bit_packed_detection_event_data |-> data,
     dets_reshaped |-> <<>>, predictions |-> <<>>, shot_idx |-> 0,
     recording_start_round |-> 0, accumulated_parity |-> 0,
     accumulated_predictions |-> <<>>, window_num |-> 0,
     predictions_packed |-> <<>>]

\* Lines 92-107 in call t.
ThreadDecodeBegin(t) ==
    /\ threads[t].pc = "compiled"
    /\ LET me == threads[t]
           data == me.bit_packed_detection_event_data
           bits == IF Size(data) = 0 THEN 0
                   ELSE Size(UnpackRow(data[0], Self.num_detectors))
       IN  threads' =
             [threads EXCEPT ![t] =
                IF ReshapeFails(Size(data), bits, Self.num_rounds,
                                Self.num_detectors_per_round)
                THEN [me EXCEPT !.pc = "failed"]
                ELSE [me EXCEPT
                        !.dets_reshaped =
                           [s \in 0..(Size(data) - 1) |->
                              ReshapeRow(UnpackRow(data[s], Self.num_detectors),
                                         Self.num_rounds,
                                         Self.num_detectors_per_round)],
                        !.predictions =
                           [s \in 0..(Size(data) - 1) |->
                              Zeros(Self.num_observables)],
                        !.shot_idx = 0,
                        !.pc = "shots"]]
    /\ UNCHANGED SingleCallVars

\* Lines 110-176 in call t.
ThreadShotBegin(t) ==
    /\ threads[t].pc = "shots"
    /\ threads[t].shot_idx < Size(threads[t].bit_packed_detection_event_data)
    /\ threads' =
         [threads EXCEPT ![t] =
            [@ EXCEPT
               !.accumulated_parity =
                  IF Self.num_observables = 1 THEN 0 ELSE @,
               !.accumulated_predictions =
                  IF Self.num_observables = 1 THEN @
                  ELSE Zeros(Self.num_observables),
               !.recording_start_round = 0,
               !.window_num = 0,
               !.pc = IF 0 < Self.num_rounds THEN "windows" ELSE "store"]]
    /\ UNCHANGED SingleCallVars

\* Lines 176-244 in call t, the accumulator being the one of call owner.
ThreadWindowStepUsing(t, owner) ==
    /\ threads[t].pc = "windows"
    /\ threads[t].window_num < MaxWindowNum
    /\ LET me == threads[t]
           recording_end_round ==
               RecordingEnd(me.recording_start_round, Self.n_sliding_window,
                            Self.num_rounds)
           decode_start_round ==
               DecodeStart(me.recording_start_round, Self.n_overlap)
           decode_end_round ==
               DecodeEnd(recording_end_round, Self.n_overlap, Self.num_rounds)
           decode_syndrome_vector ==
               SyndromeVector(me.dets_reshaped[me.shot_idx], decode_start_round,
                              decode_end_round, Self.num_detectors_per_round,
                              Self.num_detectors)
           predicted_observables == DecodeBatch(Self.matcher, decode_syndrome_vector)
           next_start == NextRecordingStart(me.recording_start_round,
                                            Self.n_sliding_window)
           accumulated(u) ==
               IF u # owner THEN threads[u]
               ELSE IF Self.num_observables = 1
               THEN [threads[u] EXCEPT
                       !.accumulated_parity = Xor(@, predicted_observables[0])]
               ELSE [threads[u] EXCEPT
                       !.accumulated_predictions =
                          XorArrays(@, predicted_observables)]
       IN  threads' =
             [u \in DOMAIN threads |->
                IF u # t THEN accumulated(u)
                ELSE [accumulated(u) EXCEPT
                        !.recording_start_round = next_start,
                        !.window_num = @ + 1,
                        !.pc = IF recording_end_round >= Self.num_rounds
                                  \/ ~(next_start < Self.num_rounds)
                               THEN "store" ELSE "windows"]]
    /\ UNCHANGED SingleCallVars

\* Mutant of ThreadWindowStep: one accumulator, kept with the compiled decoder
\* and used by every call.
ThreadWindowStepOnDecoder(t) == ThreadWindowStepUsing(t, 1)

\* Lines 176-244 in call t: accumulated_parity and accumulated_predictions are
\* local variables of the call.
ThreadWindowStep(t) == ThreadWindowStepUsing(t, t)

\* Lines 254-258 in call t.
ThreadStoreShot(t) ==
    /\ threads[t].pc = "store"
    /\ LET me == threads[t]
       IN  threads' =
             [threads EXCEPT ![t] =
                [me EXCEPT
                   !.predictions =
                      [@ EXCEPT ![me.shot_idx] =
                         IF Self.num_observables = 1
                         THEN [@ EXCEPT ![0] = me.accumulated_parity]
                         ELSE me.accumulated_predictions],
                   !.shot_idx = @ + 1,
                   !.pc = "shots"]]
    /\ UNCHANGED SingleCallVars

\* Lines 260-268 in call t.
ThreadReturnPacked(t) ==
    /\ threads[t].pc = "shots"
    /\ threads[t].shot_idx >= Size(threads[t].bit_packed_detection_event_data)
    /\ LET me == threads[t]
       IN  threads' =
             [threads EXCEPT ![t] =
                [me EXCEPT
                   !.predictions_packed =
                      <<[s \in DOMAIN me.predictions |->
                           PackRow(me.predictions[s], Self.num_observables)]>>,
                   !.pc = "returned"]]
    /\ UNCHANGED SingleCallVars

NextShared ==
    \E t \in DOMAIN threads :
       \/ ThreadDecodeBegin(t)
       \/ ThreadShotBegin(t)
       \/ ThreadWindowStep(t)
       \/ ThreadStoreShot(t)
       \/ ThreadReturnPacked(t)

\* Most detectors of the error model shared by the concurrent calls.
MaxSharedCells == 2

\* The batches of a concurrent call: one or two shots, the second with the
\* detection bits of the first in reverse order.
SharedBatches(nd) ==
    UNION { { [s \in 0..(n - 1) |->
                 InputRow([k \in 0..(nd - 1) |->
                              IF s = 0 THEN v[k] ELSE v[nd - 1 - k]],
                          nd, (s + 1) % 2)]
              : v \in [0..(nd - 1) -> Bit] }
            : n \in 1..2 }

\* A decoder with a valid geometry compiled for an error model, and two
\* decode calls about to start on it.
InitShared ==
    /\ \E nd \in 1..MaxSharedCells, nobs \in 1..MaxObs :
         /\ \E w \in 1..MaxWireWindow, o \in 0..(MaxWireWindow - 1),
               r \in {<<1>>, <<nd>>} :
              /\ o < w
              /\ decoder = [n_sliding_window |-> w, n_overlap |-> o,
                            num_rounds |-> r]
         /\ dem = [num_detectors |-> nd, num_observables |-> nobs,
                   mechanism |-> IF nobs = 1 THEN "parity" ELSE "any"]
         /\ threads \in [1..2 -> {CallLocals(data) : data \in SharedBatches(nd)}]
    /\ CompileOutcome(decoder, dem).raised = <<>>
    /\ compiled = CompileOutcome(decoder, dem).returned
    /\ pc = "shared"
    /\ error = <<>>
    /\ bit_packed_detection_event_data = <<>>
    /\ dets_reshaped = <<>>
    /\ predictions = <<>>
    /\ shot_idx = 0
    /\ recording_start_round = 0
    /\ accumulated_parity = 0
    /\ accumulated_predictions = <<>>
    /\ window_num = 0
    /\ oracle_calls = <<>>
    /\ predictions_packed = <<>>
    /\ via_files = <<>>
    /\ experiment = <<>>
    /\ obs_predictions_b8_out = <<>>

SpecShared == InitShared /\ [][NextShared]_vars

(* ----------------------- the documented example ------------------------ *)

\* The example of the class docstring: tau_round = 1000, n_sliding_window =
\* 100, n_overlap = 50.
ExampleRounds == 1000

ExampleWindow == 100

ExampleOverlap == 50

\* The batches of the example: one shot of ExampleRounds detectors (one per
\* round) with a single detection event, at the first round of a recording
\* window or at its last.
ExampleBatches ==
    { [s \in {0} |->
         InputRow([k \in 0..(ExampleRounds - 1) |-> IF k = mark THEN 1 ELSE 0],
                  ExampleRounds, 0)]
      : mark \in {i * ExampleWindow : i \in 0..((ExampleRounds \div ExampleWindow) - 1)}
                 \cup {i * ExampleWindow - 1 :
                          i \in 1..(ExampleRounds \div ExampleWindow)} }

InitExample ==
    /\ decoder = [n_sliding_window |-> ExampleWindow, n_overlap |-> ExampleOverlap,
                  num_rounds |-> <<ExampleRounds>>]
    /\ dem = [num_detectors |-> ExampleRounds, num_observables |-> 1,
              mechanism |-> "any"]
    /\ bit_packed_detection_event_data \in ExampleBatches
    /\ via_files = <<>>
    /\ threads = <<>>
    /\ experiment = <<>>
    /\ NothingRun

SpecExample == InitExample /\ [][Next]_vars

(* ----------------------- the threshold experiment --------------------- *)

\* config/experiment_config.py.
N_SLIDING_WINDOW == 3

N_OVERLAP == 0

\* Everything but the state of the experiment run and the decoder it builds.
DecodeCallVars ==
    <<dem, bit_packed_detection_event_data, pc, compiled, error, dets_reshaped,
      predictions, shot_idx, recording_start_round, accumulated_parity,
      accumulated_predictions, window_num, oracle_calls, predictions_packed,
      via_files, threads, obs_predictions_b8_out>>

\* Mutant of DecoderNames: the sliding window decoder is always listed.
DecoderNamesAlwaysSliding(use_sliding_window, compare_with_pymatching) ==
    <<"sliding_window">>
    \o (IF compare_with_pymatching THEN <<"pymatching">> ELSE <<>>)

\* The list decoders after lines 66-79 of experiment_runner.py.
DecoderNames(use_sliding_window, compare_with_pymatching) ==
    (IF use_sliding_window THEN <<"sliding_window">> ELSE <<>>)
    \o (IF compare_with_pymatching THEN <<"pymatching">> ELSE <<>>)

\* main of experiments/threshold_experiment.py, from the parsed arguments to
\* the call of run_threshold_experiment: --no-sliding-window without
\* --compare ends the program in parser.error.
Main ==
    /\ experiment # <<>>
    /\ experiment.pc = "main"
    /\ experiment' =
         IF experiment.no_sliding_window /\ ~experiment.compare
         THEN [experiment EXCEPT
                 !.pc = "rejected",
                 !.error = <<[type |-> "SystemExit",
                              message |-> "--no-sliding-window requires --compare"]>>]
         ELSE [experiment EXCEPT
                 !.pc = "run",
                 !.use_sliding_window = ~experiment.no_sliding_window,
                 !.compare_with_pymatching = experiment.compare]
    /\ UNCHANGED <<decoder, DecodeCallVars>>

\* run_threshold_experiment up to the call of sinter.collect.
RunThresholdExperiment ==
    /\ experiment # <<>>
    /\ experiment.pc = "run"
    /\ LET decoders == DecoderNames(experiment.use_sliding_window,
                                    experiment.compare_with_pymatching)
       IN  /\ decoder' =
                IF experiment.use_sliding_window
                THEN [n_sliding_window |-> N_SLIDING_WINDOW,
                      n_overlap |-> N_OVERLAP, num_rounds |-> <<>>]
                ELSE decoder
           /\ experiment' =
                IF decoders = <<>>
                THEN [experiment EXCEPT
                        !.pc = "failed",
                        !.error = <<[type |-> "ValueError",
                                     message |-> "At least one decoder must be specified"]>>]
                ELSE [experiment EXCEPT
                        !.pc = "collect",
                        !.decoders = decoders,
                        !.custom_decoders =
                           IF experiment.use_sliding_window
                           THEN {"sliding_window"} ELSE {}]
    /\ UNCHANGED DecodeCallVars

NextRunner ==
    \/ Main
    \/ RunThresholdExperiment

\* An experiment started from the command line (the two flags of main) or by
\* a direct call of run_threshold_experiment (its two keyword arguments), for
\* some number of rounds.
InitRunner ==
    /\ \E rounds \in 1..MaxRounds, a \in BOOLEAN, b \in BOOLEAN :
         \/ experiment =
              [entry |-> "main", pc |-> "main", num_rounds |-> rounds,
               no_sliding_window |-> a, compare |-> b,
               use_sliding_window |-> TRUE, compare_with_pymatching |-> FALSE,
               decoders |-> <<>>, custom_decoders |-> {}, error |-> <<>>]
         \/ experiment =
              [entry |-> "run_threshold_experiment", pc |-> "run",
               num_rounds |-> rounds,
               no_sliding_window |-> FALSE, compare |-> FALSE,
               use_sliding_window |-> a, compare_with_pymatching |-> b,
               decoders |-> <<>>, custom_decoders |-> {}, error |-> <<>>]
    /\ decoder = <<>>
    /\ dem = <<>>
    /\ bit_packed_detection_event_data = <<>>
    /\ via_files = <<>>
    /\ threads = <<>>
    /\ NothingRun

SpecRunner == InitRunner /\ [][NextRunner]_vars

(* ------------------------ vocabulary of the claims --------------------- *)

\* A decode call has started on a compiled decoder.
Decoding == pc \in {"shots", "windows", "store", "returned"}

\* The geometry the claims call valid.
ValidGeometry ==
    /\ compiled # <<>>
    /\ Self.num_rounds >= 1
    /\ Self.n_sliding_window >= 1
    /\ Self.n_overlap >= 0

\* The oracle calls made for shot s, in the order they were made.
RECURSIVE CallsOf(_, _)
CallsOf(calls, s) ==
    IF calls = <<>> THEN <<>>
    ELSE IF Head(calls).shot_idx = s
         THEN <<Head(calls)>> \o CallsOf(Tail(calls), s)
         ELSE CallsOf(Tail(calls), s)

ShotCalls(s) == CallsOf(oracle_calls, s)

\* The window loop of shot s has ended.
ShotFinished(s) == Decoding /\ (s < shot_idx \/ (s = shot_idx /\ pc = "store"))

\* Bit k of a row in the detection-event wire format (least-significant bit
\* first within each byte).
WireBit(row, k) ==
    LET byte == row[k \div 8]
        below == byte % Pow2((k % 8) + 1)
    IN  IF below >= Pow2(k % 8) THEN 1 ELSE 0

\* The complete detection vector of shot s.
FullVector(s) ==
    [k \in 0..(dem.num_detectors - 1) |->
        WireBit(bit_packed_detection_event_data[s], k)]

\* The (record_start, record_end, decode_start, decode_end) steps of shot s.
StepsOf(s) ==
    [i \in 1..Len(ShotCalls(s)) |->
        <<ShotCalls(s)[i].recording_start_round, ShotCalls(s)[i].recording_end_round,
          ShotCalls(s)[i].decode_start_round, ShotCalls(s)[i].decode_end_round>>]

(* ------------------------------- claims -------------------------------- *)

\* C1: plan coverage. On a valid geometry the record ranges visited by the
\* window loop of a shot partition [0, total_rounds): the first starts at 0,
\* each is non-empty, each next one starts where the previous one ended, and
\* when the loop has ended the last one ends at total_rounds.
C1_PlanCoverage ==
    ValidGeometry =>
      \A s \in 0..(NumShots - 1) :
        LET cs == ShotCalls(s)
        IN  /\ \A i \in 1..Len(cs) :
                 /\ cs[i].recording_start_round < cs[i].recording_end_round
                 /\ cs[i].recording_start_round =
                      (IF i = 1 THEN 0 ELSE cs[i - 1].recording_end_round)
                 /\ cs[i].recording_end_round <= Self.num_rounds
            /\ ShotFinished(s) =>
                 /\ Len(cs) >= 1
                 /\ cs[Len(cs)].recording_end_round = Self.num_rounds

\* Witness of C1: a decoded shot whose last record range is shorter than the
\* window size, after at least one full one.
C1_Witness ==
    /\ pc = "returned"
    /\ NumShots >= 1
    /\ Len(ShotCalls(0)) >= 2
    /\ Self.num_rounds % Self.n_sliding_window # 0

\* C2: every window step has decode_start = max(0, record_start - overlap) and
\* decode_end = min(total_rounds, record_end + overlap); total_rounds = 6,
\* window_size = 2, overlap = 1 gives record ranges (0,2),(2,4),(4,6) with
\* decode ranges (0,3),(1,5),(3,6); overlap = 0 gives decode ranges equal to
\* the record ranges.
C2_DecodeRanges ==
    ValidGeometry =>
      /\ \A i \in 1..Len(oracle_calls) :
           LET c == oracle_calls[i]
               lo == c.recording_start_round - Self.n_overlap
               hi == c.recording_end_round + Self.n_overlap
           IN  /\ c.decode_start_round = (IF lo < 0 THEN 0 ELSE lo)
               /\ c.decode_end_round =
                    (IF hi > Self.num_rounds THEN Self.num_rounds ELSE hi)
               /\ Self.n_overlap = 0 =>
                    /\ c.decode_start_round = c.recording_start_round
                    /\ c.decode_end_round = c.recording_end_round
      /\ \A s \in 0..(NumShots - 1) :
           (/\ ShotFinished(s)
            /\ Self.num_rounds = 6
            /\ Self.n_sliding_window = 2
            /\ Self.n_overlap = 1)
           => StepsOf(s) = << <<0, 2, 0, 3>>, <<2, 4, 1, 5>>, <<4, 6, 3, 6>> >>

\* Witness of C2: the scenario total_rounds = 6, window_size = 2, overlap = 1
\* decoded to the end.
C2_Witness ==
    /\ pc = "returned"
    /\ NumShots = 1
    /\ Self.num_rounds = 6
    /\ Self.n_sliding_window = 2
    /\ Self.n_overlap = 1
    /\ Len(oracle_calls) = 3

\* The bit-packed row the prediction wire format gives to the bits pred: one
\* byte per 8 observables, observable j in bit (j mod 8) of byte (j div 8),
\* padding bits clear.
IsPackingOf(row, pred, n) ==
    /\ DOMAIN row = 0..(NumBytes(n) - 1)
    /\ \A b \in DOMAIN row :
         /\ row[b] \in 0..255
         /\ \A i \in 0..7 :
              WireBit(row, 8 * b + i) = (IF 8 * b + i < n THEN pred[8 * b + i] ELSE 0)

\* C3: single-window equivalence. When window_size >= total_rounds, every shot
\* of a returned decode had exactly one oracle call, on the shot's complete
\* detection vector, and the shot's packed prediction is the packing of the
\* oracle's prediction for that vector.
C3_SingleWindowEquivalence ==
    (/\ ValidGeometry
     /\ Self.n_sliding_window >= Self.num_rounds)
    => /\ \A s \in 0..(NumShots - 1) :
            /\ Len(ShotCalls(s)) <= 1
            /\ \A i \in 1..Len(ShotCalls(s)) :
                 ShotCalls(s)[i].decode_syndrome_vector = FullVector(s)
            /\ ShotFinished(s) => Len(ShotCalls(s)) = 1
       /\ pc = "returned" =>
            \A s \in 0..(NumShots - 1) :
               IsPackingOf(predictions_packed[1][s],
                           DecodeBatch(Self.matcher, FullVector(s)),
                           Self.num_observables)

\* Witness of C3: a returned single-window decode of several rounds whose
\* prediction is not zero.
C3_Witness ==
    /\ pc = "returned"
    /\ Self.n_sliding_window >= Self.num_rounds
    /\ Self.num_rounds >= 2
    /\ NumShots = 2
    /\ predictions_packed[1][1][0] # 0

\* The modulo-2 sum of observable j over the window predictions cs.
RECURSIVE CountOnes(_, _)
CountOnes(cs, j) ==
    IF cs = <<>> THEN 0
    ELSE Head(cs).predicted_observables[j] + CountOnes(Tail(cs), j)

ParityOf(cs, j) == CountOnes(cs, j) % 2

\* The accumulator of the shot being decoded, as an array of observables.
Accumulator ==
    IF Self.num_observables = 1 THEN [j \in {0} |-> accumulated_parity]
    ELSE accumulated_predictions

\* C4: XOR accumulation. The accumulator of a shot starts at all-zero and is
\* at every step the modulo-2 sum of the window predictions made so far for
\* the shot; the stored prediction of a shot is the modulo-2 sum of all its
\* window predictions (predictions 1, 0, 1 give 0).
C4_XorAccumulation ==
    ValidGeometry =>
      /\ pc \in {"windows", "store"} =>
           \A j \in 0..(Self.num_observables - 1) :
              Accumulator[j] = ParityOf(ShotCalls(shot_idx), j)
      /\ Decoding =>
           \A s \in 0..(NumShots - 1) : \A j \in 0..(Self.num_observables - 1) :
              s < shot_idx => predictions[s][j] = ParityOf(ShotCalls(s), j)

\* Witness of C4: total_rounds = 6, window_size = 2, overlap = 0, one
\* observable, window predictions 1, 0, 1 and a final prediction of 0.
C4_Witness ==
    /\ pc = "returned"
    /\ Self.num_rounds = 6
    /\ Self.n_sliding_window = 2
    /\ Self.n_overlap = 0
    /\ Self.num_observables = 1
    /\ NumShots = 1
    /\ [i \in 1..Len(oracle_calls) |-> oracle_calls[i].predicted_observables[0]]
         = <<1, 0, 1>>
    /\ predictions[0][0] = 0
    /\ predictions_packed[1][0][0] = 0

\* The code's combination of an accumulator with one window prediction.
Combine(acc, pred) ==
    IF Self.num_observables = 1 THEN [j \in {0} |-> Xor(acc[0], pred[0])]
    ELSE XorArrays(acc, pred)

\* The accumulator after folding the window predictions cs[p[1]], ..., cs[p[i]]
\* into a zero accumulator, in that order.
RECURSIVE FoldInOrder(_, _, _)
FoldInOrder(cs, p, i) ==
    IF i = 0 THEN Zeros(Self.num_observables)
    ELSE Combine(FoldInOrder(cs, p, i - 1), cs[p[i]].predicted_observables)

\* C5: order independence. When the window loop of a shot has ended, folding
\* the shot's window predictions into the accumulator in any order gives the
\* accumulator the loop produced in plan order (checked under SpecOrder).
C5_OrderIndependence ==
    (ValidGeometry /\ pc = "store") =>
      LET cs == ShotCalls(shot_idx)
      IN  \A p \in Permutations(1..Len(cs)) :
             FoldInOrder(cs, p, Len(cs)) = Accumulator

\* Witness of C5: a shot of three windows whose predictions differ, so that
\* the orders are different sequences of predictions.
C5_Witness ==
    /\ pc = "store"
    /\ Len(ShotCalls(shot_idx)) = 3
    /\ ShotCalls(shot_idx)[1].predicted_observables
         # ShotCalls(shot_idx)[2].predicted_observables
    /\ ShotCalls(shot_idx)[2].predicted_observables
         # ShotCalls(shot_idx)[3].predicted_observables

\* C6: every vector handed to the oracle has num_detectors = total_rounds *
\* detectors_per_round entries; the entry of a round inside the decode window
\* is the shot's detection bit for that round and detector, the entry of a
\* round outside it is 0.
C6_OracleVector ==
    ValidGeometry =>
      \A i \in 1..Len(oracle_calls) :
        LET c == oracle_calls[i]
            v == c.decode_syndrome_vector
            per_round == Self.num_detectors_per_round
        IN  /\ DOMAIN v = 0..(Self.num_rounds * per_round - 1)
            /\ Self.num_rounds * per_round = dem.num_detectors
            /\ \A r \in 0..(Self.num_rounds - 1) : \A d \in 0..(per_round - 1) :
                 v[r * per_round + d] =
                   (IF c.decode_start_round <= r /\ r < c.decode_end_round
                    THEN WireBit(bit_packed_detection_event_data[c.shot_idx],
                                 r * per_round + d)
                    ELSE 0)

\* Witness of C6: a window strictly inside the timeline, with detection events
\* inside it and others, left out of the vector, outside it.
C6_Witness ==
    \E i \in 1..Len(oracle_calls) :
        /\ oracle_calls[i].decode_start_round > 0
        /\ oracle_calls[i].decode_end_round < Self.num_rounds
        /\ Self.num_detectors_per_round >= 2
        /\ Weight(oracle_calls[i].decode_syndrome_vector) >= 1
        /\ oracle_calls[i].decode_syndrome_vector
             # FullVector(oracle_calls[i].shot_idx)

\* C7: shot independence. The prediction row a returned decode holds for shot
\* s is the row returned by decoding that shot alone in a one-shot batch.
C7_ShotIndependence ==
    (ValidGeometry /\ pc = "returned") =>
      \A s \in 0..(NumShots - 1) :
         predictions_packed[1][s] =
           DecodeShotAlone(Self, bit_packed_detection_event_data[s])

\* Witness of C7: a returned batch of two different shots of several windows,
\* the first with a non-zero prediction.
C7_Witness ==
    /\ pc = "returned"
    /\ NumShots = 2
    /\ FullVector(0) # FullVector(1)
    /\ Len(ShotCalls(0)) >= 2
    /\ predictions_packed[1][0][0] # 0
    /\ predictions_packed[1][1] # predictions_packed[1][0]

\* The round counts the inference tests, in the order it tests them.
TestedOrder ==
    <<3, 4, 5, 6, 7, 8, 9, 10, 11, 12, 13, 14, 15, 16, 17, 18, 19, 20, 21, 22, 23,
      24, 25, 26, 50, 51, 100, 101, 200, 201, 500, 501, 1000, 1001, 10000, 10001>>

TestedRounds == (3..26) \cup {50, 51, 100, 101, 200, 201, 500, 501, 1000, 1001,
                              10000, 10001}

\* The divisibility-and-bound test, as the claims state it.
PassesTest(nd, r) == nd % r = 0 /\ 1 <= nd \div r /\ nd \div r <= 10000

Passing(nd) == {r \in TestedRounds : PassesTest(nd, r)}

\* compile_decoder_for_dem has ended on a decoder with no explicit total_rounds.
InferenceRan == pc # "constructed" /\ decoder.num_rounds = <<>>

\* C8: round-count inference. With no explicit total_rounds and some tested
\* round count passing the divisibility-and-bound test, the compiled decoder
\* has total_rounds = the first passing value in the order 3, 4, 5, ..., 26,
\* 50, 51, ..., 10000, 10001, which is the smallest passing value, and
\* detectors_per_round = num_detectors / total_rounds.
C8_RoundInference ==
    (InferenceRan /\ Passing(dem.num_detectors) # {}) =>
      /\ compiled # <<>>
      /\ error = <<>>
      /\ Self.num_rounds \in Passing(dem.num_detectors)
      /\ \A r \in Passing(dem.num_detectors) : Self.num_rounds <= r
      /\ \E i \in 1..Len(TestedOrder) :
           /\ TestedOrder[i] = Self.num_rounds
           /\ \A j \in 1..(i - 1) : ~PassesTest(dem.num_detectors, TestedOrder[j])
      /\ Self.num_detectors_per_round * Self.num_rounds = dem.num_detectors
      /\ Self.num_detectors_per_round = dem.num_detectors \div Self.num_rounds

\* Witness of C8: 30003 detectors; 3 divides it but leaves 10001 detectors per
\* round, and the first passing round count is 10001 = 10000 + 1.
C8_Witness ==
    /\ InferenceRan
    /\ dem.num_detectors = 30003
    /\ compiled # <<>>
    /\ Self.num_rounds = 10001

\* C9 as stated: with 63 detectors and no explicit total_rounds the compiled
\* decoder has total_rounds = 7 and detectors_per_round = 9.
C9_Original ==
    (InferenceRan /\ dem.num_detectors = 63) =>
      /\ compiled # <<>>
      /\ Self.num_rounds = 7
      /\ Self.num_detectors_per_round = 9

\* C9, amended: with 63 detectors and no explicit total_rounds the compiled
\* decoder has total_rounds = 3 and detectors_per_round = 21, 3 being the
\* first tested round count that divides 63.
C9_InferenceOf63 ==
    (InferenceRan /\ dem.num_detectors = 63) =>
      /\ compiled # <<>>
      /\ Self.num_rounds = 3
      /\ Self.num_detectors_per_round = 21

\* Witness of C9: the compile of a 63-detector model with inferred rounds.
C9_Witness ==
    /\ InferenceRan
    /\ dem.num_detectors = 63
    /\ pc = "compiled"

\* C10: inference failure. With no explicit total_rounds and no tested round
\* count passing the test, the compile ends with an error naming the detector
\* count and no compiled decoder, and nothing is decoded.
C10_InferenceFailure ==
    (InferenceRan /\ Passing(dem.num_detectors) = {}) =>
      /\ pc = "failed"
      /\ compiled = <<>>
      /\ error # <<>>
      /\ error[1].type = "ValueError"
      /\ error[1].message = "Could not infer number of rounds"
      /\ error[1].num_detectors = dem.num_detectors
      /\ oracle_calls = <<>>
      /\ predictions_packed = <<>>

\* Witness of C10: 30021 = 3 * 10007 detectors; the only tested round count
\* dividing it is 3, which leaves more than 10000 detectors per round.
C10_Witness ==
    /\ InferenceRan
    /\ dem.num_detectors = 30021
    /\ pc = "failed"

\* compile_decoder_for_dem has ended, with a decoder or with an exception.
CompileEnded == pc # "constructed"

\* The round count compile_decoder_for_dem resolves: <<>> when none.
ResolvedRounds == ResolveNumRounds(decoder.num_rounds, dem.num_detectors)

\* rounds divides the detector count nd evenly.
DividesEvenly(rounds, nd) == \E q \in (0 - nd)..nd : q * rounds = nd

\* C11: whenever the resolved total_rounds does not divide num_detectors
\* evenly, compile_decoder_for_dem ends with an exception and no compiled
\* decoder, and nothing is decoded; every compiled decoder has
\* num_rounds * num_detectors_per_round = num_detectors, so the mismatch never
\* shows during a decode.
C11_ShapeMismatch ==
    /\ (/\ CompileEnded
        /\ ResolvedRounds # <<>>
        /\ ~DividesEvenly(ResolvedRounds[1], dem.num_detectors))
       => /\ pc = "failed"
          /\ compiled = <<>>
          /\ error # <<>>
          /\ error[1].type \in {"ValueError", "ZeroDivisionError"}
          /\ error[1].num_rounds = ResolvedRounds
          /\ dets_reshaped = <<>>
          /\ oracle_calls = <<>>
          /\ predictions_packed = <<>>
    /\ compiled # <<>> =>
         Self.num_rounds * Self.num_detectors_per_round = dem.num_detectors

\* Witness of C11: an explicit round count of at least 2 that does not divide
\* the detector count, rejected by the divisibility check.
C11_Witness ==
    /\ pc = "failed"
    /\ decoder.num_rounds # <<>>
    /\ decoder.num_rounds[1] >= 2
    /\ error = <<DivisibilityError(dem.num_detectors, decoder.num_rounds[1])>>

\* C12 (as stated): a decoder configured with window_size < 1 or overlap < 0
\* fails at compile time: compile_decoder_for_dem raises, returns no compiled
\* decoder, and no shot is processed.
C12_Original ==
    (/\ CompileEnded
     /\ (decoder.n_sliding_window < 1 \/ decoder.n_overlap < 0))
    => /\ pc = "failed"
       /\ compiled = <<>>
       /\ error # <<>>
       /\ dets_reshaped = <<>>
       /\ oracle_calls = <<>>

\* C13 (as stated): overlap >= window_size is a configuration error:
\* compile_decoder_for_dem rejects it, and no decode with such a geometry
\* makes an oracle call.
C13_Original ==
    (/\ CompileEnded
     /\ decoder.n_overlap >= decoder.n_sliding_window)
    => /\ pc = "failed"
       /\ compiled = <<>>
       /\ oracle_calls = <<>>
       /\ predictions_packed = <<>>

\* decode_shots_bit_packed has been entered on the compiled decoder.
DecodeEntered == compiled # <<>> /\ pc # "compiled"

\* The byte length of the rows of the batch (a batch with at least one shot).
RowBytes == Size(bit_packed_detection_event_data[0])

\* C14 (as stated): for a buffer whose row byte length differs from
\* ceil(num_detectors / 8), shorter or longer, decode_shots_bit_packed (of a
\* decoder with a valid geometry) fails with an error for the whole call: no
\* oracle call is made for any shot and nothing is returned.
C14_Original ==
    (/\ DecodeEntered
     /\ ValidGeometry
     /\ Self.n_overlap < Self.n_sliding_window
     /\ NumShots >= 1
     /\ RowBytes # NumBytes(Self.num_detectors))
    => /\ pc = "failed"
       /\ error # <<>>
       /\ oracle_calls = <<>>
       /\ predictions_packed = <<>>

\* C15: an explicit total_rounds (here: a positive one) is used exactly. When
\* it divides num_detectors the compiled decoder has that round count and
\* num_detectors / total_rounds detectors per round, whatever inference would
\* resolve; when it does not, compile fails on the divisibility check for that
\* round count; the inference failure is never raised.
C15_ExplicitOverride ==
    (/\ CompileEnded
     /\ decoder.num_rounds # <<>>
     /\ decoder.num_rounds[1] >= 1)
    => LET rounds == decoder.num_rounds[1]
           nd == dem.num_detectors
       IN  /\ nd % rounds = 0 =>
                /\ compiled # <<>>
                /\ error = <<>>
                /\ Self.num_rounds = rounds
                /\ Self.num_detectors_per_round * rounds = nd
           /\ nd % rounds # 0 =>
                /\ compiled = <<>>
                /\ error = <<DivisibilityError(nd, rounds)>>
           /\ error # <<InferenceError(nd)>>

\* Witness of C15: 63 detectors compiled with the explicit round count 7,
\* giving 7 rounds of 9 detectors, where inference resolves 3 rounds.
C15_Witness ==
    /\ pc = "compiled"
    /\ decoder.num_rounds = <<7>>
    /\ dem.num_detectors = 63
    /\ Self.num_rounds = 7
    /\ Self.num_detectors_per_round = 9
    /\ InferNumRounds(63) = <<3>>

\* C16 (as stated): every compiled decoder compile_decoder_for_dem returns,
\* with an explicit or an inferred round count and for any integer inputs, has
\* total_rounds >= 1, detectors_per_round >= 1 and
\* total_rounds * detectors_per_round = num_detectors.
C16_Original ==
    compiled # <<>> =>
      /\ Self.num_rounds >= 1
      /\ Self.num_detectors_per_round >= 1
      /\ Self.num_rounds * Self.num_detectors_per_round = dem.num_detectors

\* C19: the returned array has one row per input shot, each of
\* ceil(num_observables / 8) bytes; bit (j mod 8) of byte (j div 8) of row i,
\* least-significant bit first, is the final accumulator bit of observable j
\* for shot i (the modulo-2 sum of the shot's window predictions), and the
\* padding bits are 0.
C19_PredictionWireFormat ==
    pc = "returned" =>
      /\ predictions_packed # <<>>
      /\ DOMAIN predictions_packed[1] = 0..(NumShots - 1)
      /\ \A s \in 0..(NumShots - 1) :
           /\ Size(predictions_packed[1][s]) = NumBytes(dem.num_observables)
           /\ IsPackingOf(predictions_packed[1][s],
                          [j \in 0..(dem.num_observables - 1) |->
                              ParityOf(ShotCalls(s), j)],
                          dem.num_observables)

\* Witness of C19: two shots returned with two-byte prediction rows, the
\* ninth observable (bit 0 of byte 1) set in one of them.
C19_Witness ==
    /\ pc = "returned"
    /\ NumShots = 2
    /\ dem.num_observables = 9
    /\ \E s \in 0..1 : predictions_packed[1][s][1] = 1
    /\ \E s \in 0..1 : predictions_packed[1][s][0] # 0

\* C20: unpacking a row least-significant bit first and keeping its first
\* num_detectors bits, then packing those bits with the decoder's packing
\* step, gives a row of the same length that agrees with the original on all
\* the num_detectors non-padding bits; detector k is read from bit (k mod 8)
\* of byte (k div 8) and is detector (k mod detectors_per_round) of round
\* (k div detectors_per_round).
C20_PackUnpackRoundTrip ==
    (Decoding /\ ValidGeometry) =>
      \A s \in 0..(NumShots - 1) :
        LET row == bit_packed_detection_event_data[s]
            nd == Self.num_detectors
            per_round == Self.num_detectors_per_round
            packed == PackRow(UnpackRow(row, nd), nd)
        IN  /\ DOMAIN packed = DOMAIN row
            /\ \A k \in 0..(nd - 1) :
                 /\ WireBit(packed, k) = WireBit(row, k)
                 /\ dets_reshaped[s][k \div per_round][k % per_round]
                      = WireBit(row, k)

\* Witness of C20: a two-byte row with a detection bit in each byte and its
\* padding bits set, unpacked to 3 rounds of 3 detectors; packing the unpacked
\* bits clears the padding.
C20_Witness ==
    /\ Decoding
    /\ Self.num_rounds = 3
    /\ Self.num_detectors_per_round = 3
    /\ bit_packed_detection_event_data[0][0] = 4
    /\ bit_packed_detection_event_data[0][1] = 255
    /\ dets_reshaped[0][0][2] = 1
    /\ dets_reshaped[0][2][2] = 1
    /\ PackRow(UnpackRow(bit_packed_detection_event_data[0], 9), 9)[1] = 1

\* The shots of the detection-event file: record s is the bytes
\* s * ceil(num_dets / 8) + 1 .. (s + 1) * ceil(num_dets / 8) of the file.
FileShots ==
    LET len == NumBytes(Args.num_dets)
    IN  [s \in 0..((Len(Args.dets_b8_in) \div len) - 1) |->
            LET record == SubSeq(Args.dets_b8_in, s * len + 1, (s + 1) * len)
            IN  [b \in 0..(len - 1) |-> record[b + 1]]]

C18_Original ==
    via_files # <<>> =>
      /\ Decoding => NumShots = Args.num_shots
      /\ pc = "written" =>
           Len(obs_predictions_b8_out[1]) = Args.num_shots * NumBytes(Args.num_obs)

\* C21: the compiled decoder is read-only during decoding: while two decode
\* calls run on it with their steps interleaved in any order it stays the
\* decoder compile_decoder_for_dem returned, and each call returns exactly the
\* predictions that compiling and decoding its batch alone returns.
C21_ReadOnlySharing ==
    threads # <<>> =>
      /\ compiled = CompileOutcome(decoder, dem).returned
      /\ \A t \in DOMAIN threads :
           /\ threads[t].pc # "failed"
           /\ threads[t].pc = "returned" =>
                threads[t].predictions_packed =
                  CompileThenDecode(decoder, dem,
                                    threads[t].bit_packed_detection_event_data).returned

\* Witness of C21: the first call has returned a non-zero prediction while
\* the second, on another batch, is in the middle of the window loop of its
\* shot with a non-zero accumulator.
C21_Witness ==
    /\ threads # <<>>
    /\ threads[1].pc = "returned"
    /\ threads[1].predictions_packed[1][0][0] # 0
    /\ threads[2].pc = "windows"
    /\ threads[2].recording_start_round > 0
    /\ threads[2].accumulated_parity = 1
    /\ threads[2].bit_packed_detection_event_data
         # threads[1].bit_packed_detection_event_data

\* The decode ranges of the oracle calls made so far for shot s.
DecodeRangesOf(s) ==
    [i \in 1..Len(ShotCalls(s)) |->
        <<ShotCalls(s)[i].decode_start_round, ShotCalls(s)[i].decode_end_round>>]

Listed(name, names) == \E i \in 1..Len(names) : names[i] = name

\* C23: run_threshold_experiment raises ValueError when neither
\* use_sliding_window nor compare_with_pymatching is set, and otherwise hands
\* the collector a list that has 'sliding_window' exactly when
\* use_sliding_window is true and 'pymatching' exactly when
\* compare_with_pymatching is true, and nothing else; started from main the
\* experiment never fails for want of a decoder, because --no-sliding-window
\* without --compare is rejected before run_threshold_experiment is called.
C23_DecoderSelection ==
    experiment # <<>> =>
      LET e == experiment
          none == ~e.use_sliding_window /\ ~e.compare_with_pymatching
      IN  /\ e.pc \in {"collect", "failed"} => (e.pc = "failed" <=> none)
          /\ e.pc = "failed" =>
               /\ e.error # <<>>
               /\ e.error[1].type = "ValueError"
               /\ e.decoders = <<>>
          /\ e.pc = "collect" =>
               /\ Listed("sliding_window", e.decoders) <=> e.use_sliding_window
               /\ Listed("pymatching", e.decoders) <=> e.compare_with_pymatching
               /\ \A i \in 1..Len(e.decoders) :
                    /\ e.decoders[i] \in {"sliding_window", "pymatching"}
                    /\ \A j \in 1..Len(e.decoders) :
                         e.decoders[i] = e.decoders[j] => i = j
          /\ e.entry = "main" =>
               /\ e.pc # "failed"
               /\ e.pc \in {"run", "collect"} => ~none
               /\ (e.no_sliding_window /\ ~e.compare) => e.pc \in {"main", "rejected"}

\* Witness of C23: a direct call with both flags false has raised ValueError.
C23_Witness ==
    /\ experiment # <<>>
    /\ experiment.entry = "run_threshold_experiment"
    /\ experiment.pc = "failed"
    /\ ~experiment.use_sliding_window
    /\ ~experiment.compare_with_pymatching

\* C24 (as stated): with 0 < overlap < window_size the correction of a round is
\* folded into the accumulator exactly once, by the window whose record range
\* holds the round: for the oracle whose prediction is the XOR of one
\* contribution per detection event (mechanism "parity"), the stored
\* prediction of a decoded shot is the oracle's prediction for the shot's
\* full detection vector.
C24_Original ==
    (/\ ValidGeometry
     /\ Self.n_overlap > 0
     /\ Self.n_overlap < Self.n_sliding_window
     /\ Self.num_observables = 1
     /\ dem.mechanism = "parity")
    => \A s \in 0..(NumShots - 1) :
          (Decoding /\ s < shot_idx) =>
             predictions[s][0] = Weight(FullVector(s)) % 2

\* C25: on a valid geometry every window has decode_start <= record_start <
\* record_end <= decode_end; when the window loop of a shot has ended, every
\* round's detection events were given to the oracle in at least one window,
\* and the last window has decode_end = total_rounds, so its oracle input
\* holds the final round.
C25_RecordInsideDecode ==
    ValidGeometry =>
      /\ \A i \in 1..Len(oracle_calls) :
           LET c == oracle_calls[i]
           IN  /\ c.decode_start_round <= c.recording_start_round
               /\ c.recording_start_round < c.recording_end_round
               /\ c.recording_end_round <= c.decode_end_round
      /\ \A s \in 0..(NumShots - 1) :
           ShotFinished(s) =>
             LET cs == ShotCalls(s)
                 per_round == Self.num_detectors_per_round
                 last == cs[Len(cs)]
                 Presents(c, r) ==
                     /\ c.decode_start_round <= r
                     /\ r < c.decode_end_round
                     /\ \A d \in 0..(per_round - 1) :
                          c.decode_syndrome_vector[r * per_round + d]
                            = FullVector(s)[r * per_round + d]
             IN  /\ \A r \in 0..(Self.num_rounds - 1) :
                      \E i \in 1..Len(cs) : Presents(cs[i], r)
                 /\ last.decode_end_round = Self.num_rounds
                 /\ Presents(last, Self.num_rounds - 1)

\* Witness of C25: a decoded shot of several windows with an overlap, and a
\* detection event in its final round.
C25_Witness ==
    /\ pc = "returned"
    /\ ValidGeometry
    /\ Self.n_overlap = 1
    /\ NumShots = 1
    /\ Len(oracle_calls) = 3
    /\ FullVector(0)[dem.num_detectors - 1] = 1
    /\ oracle_calls[3].decode_start_round < oracle_calls[3].recording_start_round

\* ceil(a / b) for b >= 1.
CeilDiv(a, b) == (a + b - 1) \div b

\* C26: on a valid geometry the oracle is invoked once per window step, with
\* one vector of num_detectors entries: exactly ceil(total_rounds /
\* window_size) times for each shot, num_shots times that in a returned call;
\* all calls for a shot come before any call for the next shot, and those of
\* one shot are in strictly increasing record_start order.
C26_OracleCallCount ==
    ValidGeometry =>
      LET per_shot == CeilDiv(Self.num_rounds, Self.n_sliding_window)
      IN  /\ pc = "returned" => Len(oracle_calls) = NumShots * per_shot
          /\ \A s \in 0..(NumShots - 1) :
               /\ Len(ShotCalls(s)) <= per_shot
               /\ ShotFinished(s) => Len(ShotCalls(s)) = per_shot
          /\ \A i \in 1..Len(oracle_calls) :
               /\ DOMAIN oracle_calls[i].decode_syndrome_vector
                    = 0..(Self.num_detectors - 1)
               /\ DOMAIN oracle_calls[i].predicted_observables
                    = 0..(Self.num_observables - 1)
               /\ i > 1 =>
                    \/ oracle_calls[i].shot_idx = oracle_calls[i - 1].shot_idx + 1
                    \/ /\ oracle_calls[i].shot_idx = oracle_calls[i - 1].shot_idx
                       /\ oracle_calls[i].recording_start_round
                            > oracle_calls[i - 1].recording_start_round

\* Witness of C26: two shots of two windows each, decoded with four oracle
\* calls.
C26_Witness ==
    /\ pc = "returned"
    /\ ValidGeometry
    /\ NumShots = 2
    /\ Self.n_sliding_window = 2
    /\ Self.num_rounds = 3
    /\ Len(oracle_calls) = 4
    /\ oracle_calls[3].shot_idx = 1

\* The window plan of a geometry: step k (from 1) records
\* [window (k - 1), min(window k, rounds)) and decodes that range extended by
\* overlap rounds on each side, clamped to [0, rounds).
PlanOf(rounds, window, overlap) ==
    [k \in 1..CeilDiv(rounds, window) |->
        LET record_start == window * (k - 1)
            record_end == IF window * k < rounds THEN window * k ELSE rounds
        IN  <<record_start, record_end,
              IF record_start - overlap > 0 THEN record_start - overlap ELSE 0,
              IF record_end + overlap < rounds THEN record_end + overlap ELSE rounds>>]

\* C28: the window plan is a function of the compiled geometry only: every
\* shot, whatever its detection events and the oracle's predictions, is
\* decoded with the steps of PlanOf(total_rounds, window_size, overlap), in
\* that order.
C28_PlanIsGeometryOnly ==
    ValidGeometry =>
      \A s \in 0..(NumShots - 1) :
        LET plan == PlanOf(Self.num_rounds, Self.n_sliding_window, Self.n_overlap)
            steps == StepsOf(s)
        IN  /\ Len(steps) <= Len(plan)
            /\ \A i \in 1..Len(steps) : steps[i] = plan[i]
            /\ ShotFinished(s) => steps = plan

\* Witness of C28: two shots with different detection events and different
\* predictions, decoded with the same three steps.
C28_Witness ==
    /\ pc = "returned"
    /\ ValidGeometry
    /\ NumShots = 2
    /\ FullVector(0) # FullVector(1)
    /\ predictions[0] # predictions[1]
    /\ Len(StepsOf(0)) = 3
    /\ StepsOf(0) = StepsOf(1)

\* The array path over the window predictions cs, from the accumulator acc.
RECURSIVE ArrayPath(_, _)
ArrayPath(cs, acc) ==
    IF cs = <<>> THEN acc
    ELSE ArrayPath(Tail(cs), XorArrays(acc, Head(cs).predicted_observables))

\* The single-bit path over observable j of the window predictions cs, from
\* the parity acc.
RECURSIVE FastPath(_, _, _)
FastPath(cs, j, acc) ==
    IF cs = <<>> THEN acc
    ELSE FastPath(Tail(cs), j, Xor(acc, Head(cs).predicted_observables[j]))

\* C29: the single-bit path and the array path compute the same function: on
\* the window predictions made so far for a shot, entry j of the array path
\* is the single-bit path run on observable j alone, which is the XOR of that
\* observable's predictions; the accumulator in use has that value, and each
\* of its entries is 0 or 1 after every window step.
C29_PathsAgree ==
    (ValidGeometry /\ pc \in {"windows", "store"}) =>
      LET cs == ShotCalls(shot_idx)
          array == ArrayPath(cs, Zeros(Self.num_observables))
      IN  \A j \in 0..(Self.num_observables - 1) :
             /\ Accumulator[j] \in {0, 1}
             /\ array[j] = FastPath(cs, j, 0)
             /\ Accumulator[j] = array[j]
             /\ Accumulator[j] = ParityOf(cs, j)

\* Witness of C29: a two-observable shot after three windows, the first
\* observable predicted 1 by all three and the second by two of them.
C29_Witness ==
    /\ pc = "store"
    /\ ValidGeometry
    /\ Self.num_observables = 2
    /\ Len(ShotCalls(shot_idx)) = 3
    /\ CountOnes(ShotCalls(shot_idx), 0) = 3
    /\ CountOnes(ShotCalls(shot_idx), 1) = 2
    /\ accumulated_predictions = [j \in 0..1 |-> 1 - j]

====
